---------------------------- MODULE Spec2Model ----------------------------
(***************************************************************************)
(* TaskMaster (src/taskmaster.py): a Streamlit script over one MongoDB     *)
(* collection of task documents.  Every browser session runs the script    *)
(* top to bottom on each interaction; the collection is the only state the *)
(* sessions share.  A step of the model is one store call of one session's *)
(* script run, together with the script lines around it.                   *)
(*                                                                         *)
(* Text is a sequence of one-character strings, so that str.strip() is a   *)
(* real conversion.  A BSON datetime is a record [date, time]; a BSON      *)
(* string is a record [str].                                               *)
(***************************************************************************)
EXTENDS Integers, Sequences, FiniteSets

\* ------------------------------------------------------------- bounds
\* ObjectIds the driver hands out in one behaviour (inserts attempted).
MaxTasks == 2
\* Last value of the server clock (milliseconds, as BSON stores them).
MaxTime == 1
\* Store calls that fail in one behaviour.
MaxFaults == 1
\* Longest task list handed to the deadlines table on its own.
MaxLen == 4

\* ---------------------------------------------------------- constants
STATUS_OPTIONS == <<"Pending", "In Progress", "Completed">>
PRIORITY_OPTIONS == <<"High", "Medium", "Low">>

\* The elements of a sequence.
Range(seq) == {seq[i] : i \in DOMAIN seq}

\* Browser sessions connected to the one server process.
Sessions == {"s1", "s2"}

\* What the user of each session types into the sidebar's name box.
UsernameInputs == [s1 |-> {<<"a">>}, s2 |-> {<<" ", "a">>, <<"b">>}]
\* How the model's users fill the add form: name, priority, due date (days
\* since the epoch).
AddInputs ==
    {[task_name |-> <<" ">>, task_priority |-> "Medium", task_due_date |-> 1],
     [task_name |-> << >>, task_priority |-> "Medium", task_due_date |-> 1],
     [task_name |-> <<" ", "y">>, task_priority |-> "High", task_due_date |-> 2]}
\* How the model's users fill a task form before pressing Save.
SaveInputs ==
    {[new_task_name |-> <<" ", "x">>, new_status |-> "Completed", new_priority |-> "Medium"],
     [new_task_name |-> <<"y">>, new_status |-> "In Progress", new_priority |-> "Low"]}
\* The selections of the status filter that the user of each session makes.
FilterInputs ==
    [s1 |-> {{"Pending", "In Progress", "Completed"}, {"Pending", "In Progress"}},
     s2 |-> {{"Pending", "In Progress", "Completed"}}]

\* ------------------------------------------------------------ strings
Whitespace == {" "}

\* str.lstrip(): leading whitespace removed.
RECURSIVE LStrip(_)
LStrip(s) ==
    IF s = << >> THEN << >>
    ELSE IF Head(s) \in Whitespace THEN LStrip(Tail(s))
    ELSE s

\* str.rstrip(): trailing whitespace removed.
RECURSIVE RStrip(_)
RStrip(s) ==
    IF s = << >> THEN << >>
    ELSE IF s[Len(s)] \in Whitespace THEN RStrip(SubSeq(s, 1, Len(s) - 1))
    ELSE s

\* str.strip()
Strip(s) == RStrip(LStrip(s))

\* ----------------------------------------------------------- datetimes
\* datetime.min.time(): midnight.
MinTime == 0

\* datetime.combine(date, time)
DatetimeCombine(date, time) == [date |-> date, time |-> time]

\* A BSON value is a datetime.
IsDatetime(v) == "date" \in DOMAIN v

\* A string value.
Str(chars) == [str |-> chars]

\* pandas' NaT.
NaT == [nat |-> TRUE]

\* The strings pandas parses as dates, with the datetime each gives.
DateStrings == [x \in {"1970-01-02"} |-> DatetimeCombine(1, MinTime)]

\* pd.to_datetime(v, errors='coerce') of one value: a datetime stays, a
\* string that parses becomes its datetime, anything else becomes NaT.
ToDatetime(v) ==
    IF IsDatetime(v) THEN v
    ELSE IF "str" \in DOMAIN v /\ v.str \in DOMAIN DateStrings THEN DateStrings[v.str]
    ELSE NaT

\* Datetime a is not after datetime b.
DatetimeLeq(a, b) == a.date < b.date \/ (a.date = b.date /\ a.time <= b.time)

\* ------------------------------------------------------ the collection
\* A query with no filter: every document.
Find_NoFilter(coll, owner) == coll

\* The filter {"Username": owner}: the documents whose Username equals owner.
Find(coll, owner) == {d \in coll : d.Username = owner}

\* .sort("CreatedAt", -1): every order of the documents that is descending
\* in CreatedAt.  The order of documents with equal CreatedAt is whatever
\* the server returns.
RECURSIVE SortCreatedAtDesc(_)
SortCreatedAtDesc(docs) ==
    IF docs = {} THEN {<< >>}
    ELSE UNION {{<<d>> \o rest : rest \in SortCreatedAtDesc(docs \ {d})} :
                d \in {m \in docs : \A e \in docs : m.CreatedAt >= e.CreatedAt}}

\* list(tasks_collection.find({"Username": owner}).sort("CreatedAt", -1)):
\* the lists the query can return on collection coll.
ListByOwner(coll, owner) == SortCreatedAtDesc(Find(coll, owner))

\* insert_one(doc)
InsertOne(coll, doc) == coll \cup {doc}

\* update_one with upsert=True: a document is made when none matches.
UpdateOne_Upsert(coll, id, updates) ==
    IF \E d \in coll : d._id = id
      THEN {IF d._id = id
              THEN [f \in (DOMAIN d) \cup (DOMAIN updates) |->
                       IF f \in DOMAIN updates THEN updates[f] ELSE d[f]]
              ELSE d : d \in coll}
      ELSE coll \cup {[f \in {"_id"} \cup (DOMAIN updates) |-> IF f = "_id" THEN id ELSE updates[f]]}

\* update_many with the filter lost: every document gets the fields.
UpdateOne_Many(coll, id, updates) ==
    {[f \in (DOMAIN d) \cup (DOMAIN updates) |->
         IF f \in DOMAIN updates THEN updates[f] ELSE d[f]] : d \in coll}

\* An update that leaves the name alone when the stored task has one.
UpdateOne_KeepName(coll, id, updates) ==
    {IF d._id = id
       THEN [f \in (DOMAIN d) \cup (DOMAIN updates) |->
                IF f \in DOMAIN updates /\ ~(f = "Task" /\ d.Task # << >>) THEN updates[f] ELSE d[f]]
       ELSE d : d \in coll}

\* update_one({"_id": id}, {"$set": updates}): the first document whose _id
\* is id gets the fields of updates; no document is made when none matches.
UpdateOne(coll, id, updates) ==
    {IF d._id = id
       THEN [f \in (DOMAIN d) \cup (DOMAIN updates) |->
                IF f \in DOMAIN updates THEN updates[f] ELSE d[f]]
       ELSE d : d \in coll}

\* delete_many on the owner of the task: every task of that user goes.
DeleteOne_OfOwner(coll, id) ==
    {d \in coll : \A m \in coll : m._id = id => d.Username # m.Username}

\* delete_one({"_id": id})
DeleteOne(coll, id) == {d \in coll : d._id # id}

\* ------------------------------------------------------------ the run
\* The document built with the form's default priority in place of the
\* selected one.
task_data_DefaultPriority(oid, uname, task_name, task_priority, task_due_date, utcnow) ==
    [_id |-> oid,
     Username |-> Strip(uname),
     Task |-> Strip(task_name),
     Status |-> "Pending",
     Priority |-> PRIORITY_OPTIONS[2],
     DueDate |-> DatetimeCombine(task_due_date, MinTime),
     CreatedAt |-> utcnow]

\* The document the add form builds.
task_data(oid, uname, task_name, task_priority, task_due_date, utcnow) ==
    [_id |-> oid,
     Username |-> Strip(uname),
     Task |-> Strip(task_name),
     Status |-> "Pending",
     Priority |-> task_priority,
     DueDate |-> DatetimeCombine(task_due_date, MinTime),
     CreatedAt |-> utcnow]

\* `if not task_name`: only the empty name refused.
NoTaskName_Unstripped(task_name) == task_name = << >>

\* `if not task_name.strip()`: the add form refuses the name.
NoTaskName(task_name) == Strip(task_name) = << >>

\* A $set document that also resets the due date.
updates_WithDueDate(new_task_name, new_status, new_priority) ==
    [Task |-> Strip(new_task_name),
     Status |-> new_status,
     Priority |-> new_priority,
     DueDate |-> DatetimeCombine(0, MinTime)]

\* The $set document of a Save.
updates(new_task_name, new_status, new_priority) ==
    [Task |-> Strip(new_task_name),
     Status |-> new_status,
     Priority |-> new_priority]

\* KPI metrics of a fetched list.
total_tasks(tasks) == Len(tasks)
completed_tasks(tasks) == Cardinality({i \in DOMAIN tasks : tasks[i].Status = "Completed"})
pending_tasks(tasks) == total_tasks(tasks) - completed_tasks(tasks)

\* [t for t in all_tasks if t["Status"] in filter_status]
filtered_tasks(tasks, filter) == SelectSeq(tasks, LAMBDA t : t.Status \in filter)

\* dict.get(key, default)
Get(t, key, default) == IF key \in DOMAIN t THEN t[key] ELSE default

\* The rows built from the tasks whose status is Pending alone.
PendingRows_OnlyPending(tasks) ==
    LET pending == SelectSeq(tasks, LAMBDA t : t.Status = "Pending")
    IN  [i \in DOMAIN pending |->
            [Task |-> pending[i].Task,
             Priority |-> Get(pending[i], "Priority", "Medium"),
             DueDate |-> Get(pending[i], "DueDate", Str("N/A"))]]

\* The rows of lines 149-156: the tasks that are not Completed.
PendingRows(tasks) ==
    LET pending == SelectSeq(tasks, LAMBDA t : t.Status # "Completed")
    IN  [i \in DOMAIN pending |->
            [Task |-> pending[i].Task,
             Priority |-> Get(pending[i], "Priority", "Medium"),
             DueDate |-> Get(pending[i], "DueDate", Str("N/A"))]]

\* pending_df["DueDate"] = pd.to_datetime(pending_df["DueDate"], errors='coerce')
CoerceDueDate(rows) == [i \in DOMAIN rows |-> [rows[i] EXCEPT !.DueDate = ToDatetime(rows[i].DueDate)]]

\* pending_df.dropna(subset=["DueDate"])
DropNa(rows) == SelectSeq(rows, LAMBDA r : r.DueDate # NaT)

\* pending_df.sort_values(by="DueDate").reset_index(drop=True): every order
\* of the rows that is ascending in DueDate.  The sort is not stable, so
\* rows of equal DueDate come in any order.
SortValues(rows) ==
    LET n == Len(rows)
        orders == {p \in [1..n -> 1..n] :
                     /\ \A i, j \in 1..n : i # j => p[i] # p[j]
                     /\ \A i, j \in 1..n : i < j => DatetimeLeq(rows[p[i]].DueDate, rows[p[j]].DueDate)}
    IN  {[i \in 1..n |-> rows[p[i]]] : p \in orders}

\* Lines 146-176: the tables the Upcoming Deadlines column can show for the
\* fetched tasks; no table is drawn (an empty one here) without a name or
\* without pending tasks.
UpcomingDeadlines(uname, tasks) ==
    IF Strip(uname) # << >> /\ pending_tasks(tasks) > 0
      THEN SortValues(DropNa(CoerceDueDate(PendingRows(tasks))))
      ELSE {<< >>}


\* -------------------------------------------------------------- state
VARIABLES
    tasks_collection,  \* the documents of db["tasks"]
    next_oid,          \* the next ObjectId the driver generates
    now,               \* the server clock at its last reading, in milliseconds
    faults,            \* the store calls that have failed
    username,          \* per session: the sidebar's name box
    filter_status,     \* per session: the status multiselect
    forms,             \* per session: the ids of the task forms on its page
    all_tasks,         \* per session: the list fetched by its run, while at a button
    pending_df,        \* per session: the deadlines table, where a run is followed into it
    deleted,           \* history: the ids delete_one has removed
    clicked,           \* per session: the form button its run handles, then what the
                       \* handler submitted and the documents its filter matched
    notice,            \* per session: the warnings and errors on its page
    pc                 \* per session: where its script run is

vars == <<tasks_collection, next_oid, now, faults, username, filter_status, forms, all_tasks, pending_df, deleted, clicked, notice, pc>>

\* No form button pressed.
NoClick == [kind |-> "none"]

\* The multiselect's default: every status.
DefaultFilter == Range(STATUS_OPTIONS)

\* The state of a fresh deployment: an empty collection, every session on
\* its first page with no name entered.
Init ==
    /\ tasks_collection = {}
    /\ next_oid = 1
    /\ now = 0
    /\ faults = 0
    /\ username = [s \in Sessions |-> << >>]
    /\ filter_status = [s \in Sessions |-> DefaultFilter]
    /\ forms = [s \in Sessions |-> {}]
    /\ all_tasks = [s \in Sessions |-> << >>]
    /\ pending_df = [s \in Sessions |-> << >>]
    /\ deleted = {}
    /\ clicked = [s \in Sessions |-> NoClick]
    /\ notice = [s \in Sessions |-> {}]
    /\ pc = [s \in Sessions |-> "idle"]

\* The ids of the forms the loop of line 194 draws before the form of task
\* id, and that one.
FormsUpTo(tasks, id) ==
    {tasks[i]._id : i \in {j \in DOMAIN tasks : \A k \in 1..(j - 1) : tasks[k]._id # id}}

\* Lines 108-221 of a run that has fetched lst: the page is drawn from it.
\* The run stops at the form of the pressed button click, if the loop draws
\* that form again, with the handler's store call still to make; otherwise
\* it draws every form and ends.
DrawPage(s, lst, filter, click) ==
    LET shown == IF lst = << >> THEN << >> ELSE filtered_tasks(lst, filter)
        hit == click.kind # "none" /\ \E t \in Range(shown) : t._id = click.id
    IN  /\ filter_status' = [filter_status EXCEPT ![s] = IF lst = << >> THEN DefaultFilter ELSE filter]
        /\ all_tasks' = [all_tasks EXCEPT ![s] = IF hit THEN lst ELSE << >>]
        /\ UNCHANGED pending_df
        /\ clicked' = [clicked EXCEPT ![s] = IF hit THEN click ELSE NoClick]
        /\ forms' = [forms EXCEPT ![s] = IF hit THEN {} ELSE {t._id : t \in Range(shown)}]
        /\ pc' = [pc EXCEPT ![s] = IF hit THEN "button" ELSE "idle"]

\* Lines 93-221 of a run: fetch the tasks of the user named in the name box
\* and draw the page.  click is the form button whose press started the
\* run and shown the messages the run has already put on the page.
FetchTasks(s, uname, filter, click, shown) ==
    /\ username' = [username EXCEPT ![s] = uname]
    /\ UNCHANGED <<tasks_collection, next_oid, now, deleted>>
    /\ \/ \* the query returns (or no name is entered and none is made)
          /\ UNCHANGED faults
          /\ notice' = [notice EXCEPT ![s] = shown]
          /\ \E lst \in (IF Strip(uname) # << >>
                           THEN ListByOwner(tasks_collection, Strip(uname))
                           ELSE {<< >>}) :
                DrawPage(s, lst, filter, click)
       \/ \* the query raises: st.error, all_tasks = []
          /\ Strip(uname) # << >>
          /\ faults < MaxFaults
          /\ faults' = faults + 1
          /\ notice' = [notice EXCEPT ![s] = shown \cup {"Failed to fetch tasks"}]
          /\ DrawPage(s, << >>, filter, click)

\* The last run drew the sidebar: it ended, or an exception stopped it
\* further down.
SidebarDrawn(s) ==
    \/ pc[s] = "idle"
    \/ pc[s] = "stopped" /\ "exception" \in notice[s]

\* The user types a name into the sidebar; the script reruns.
TypeUsername(s, uname) ==
    /\ SidebarDrawn(s)
    /\ uname # username[s]
    /\ FetchTasks(s, uname, filter_status[s], NoClick, {})

\* The user changes the status filter (drawn only above a non-empty list).
SelectFilter(s, filter) ==
    /\ pc[s] \in {"idle", "stopped"}
    /\ forms[s] # {} \/ filter_status[s] # DefaultFilter
    /\ filter # filter_status[s]
    /\ FetchTasks(s, username[s], filter, NoClick, {})

\* The user submits the sidebar's add form (lines 75-88); the run then
\* goes on to the fetch, unless insert_one raised.
SubmitAdd(s, task_name, task_priority, task_due_date) ==
    /\ SidebarDrawn(s)
    /\ Strip(username[s]) # << >>
    /\ UNCHANGED <<username, filter_status, all_tasks, pending_df, deleted>>
    /\ clicked' = [clicked EXCEPT ![s] = NoClick]
    /\ forms' = [forms EXCEPT ![s] = {}]
    /\ IF NoTaskName(task_name)
         THEN /\ notice' = [notice EXCEPT ![s] = {"Please enter a task name."}]
              /\ pc' = [pc EXCEPT ![s] = "fetch"]
              /\ UNCHANGED <<tasks_collection, next_oid, now, faults>>
         ELSE /\ next_oid <= MaxTasks
              /\ next_oid' = next_oid + 1
              /\ \E utcnow \in {now, now + 1} :
                    /\ utcnow <= MaxTime
                    /\ now' = utcnow
                    /\ \/ /\ tasks_collection' = InsertOne(tasks_collection,
                                task_data(next_oid, username[s], task_name, task_priority, task_due_date, utcnow))
                          /\ notice' = [notice EXCEPT ![s] = {}]
                          /\ pc' = [pc EXCEPT ![s] = "fetch"]
                          /\ UNCHANGED faults
                       \/ \* insert_one raises: nothing catches it, the run ends
                          /\ faults < MaxFaults
                          /\ faults' = faults + 1
                          /\ UNCHANGED tasks_collection
                          /\ notice' = [notice EXCEPT ![s] = {"exception"}]
                          /\ pc' = [pc EXCEPT ![s] = "stopped"]

\* The fetch of a run that handled the add form, or of the run that
\* st.rerun() started.
Fetch(s) ==
    /\ pc[s] \in {"fetch", "rerun"}
    /\ FetchTasks(s, username[s], filter_status[s], NoClick, notice[s])

\* The user presses Save in the form of task id; the script reruns.
ClickSave(s, id) ==
    /\ pc[s] \in {"idle", "stopped"}
    /\ id \in forms[s]
    /\ FetchTasks(s, username[s], filter_status[s], [kind |-> "Save", id |-> id], {})

\* The user presses Delete in the form of task id; the script reruns.
ClickDelete(s, id) ==
    /\ pc[s] \in {"idle", "stopped"}
    /\ id \in forms[s]
    /\ FetchTasks(s, username[s], filter_status[s], [kind |-> "Delete", id |-> id], {})

\* [t for t in all_tasks if t["Status"] in filter_status] of the run at a
\* button.
ShownTasks(s) == filtered_tasks(all_tasks[s], filter_status[s])

\* Lines 200-214: the form the run has drawn again reads its widgets, which
\* hold what the user entered, and its Save handler runs.
Save(s, new_task_name, new_status, new_priority) ==
    /\ pc[s] = "button"
    /\ clicked[s].kind = "Save"
    /\ UNCHANGED <<next_oid, now, username, filter_status, deleted>>
    /\ clicked' = [clicked EXCEPT ![s] =
            [kind |-> "Save", id |-> clicked[s].id,
             new_task_name |-> new_task_name, new_status |-> new_status,
             new_priority |-> new_priority,
             matched |-> {d \in tasks_collection : d._id = clicked[s].id}]]
    /\ all_tasks' = [all_tasks EXCEPT ![s] = << >>]
    /\ UNCHANGED pending_df
    /\ \/ /\ tasks_collection' = UpdateOne(tasks_collection, clicked[s].id,
                updates(new_task_name, new_status, new_priority))
          /\ UNCHANGED <<faults, notice, forms>>
          /\ pc' = [pc EXCEPT ![s] = "rerun"]
       \/ \* update_one raises: nothing catches it, the run ends
          /\ faults < MaxFaults
          /\ faults' = faults + 1
          /\ UNCHANGED tasks_collection
          /\ forms' = [forms EXCEPT ![s] = FormsUpTo(ShownTasks(s), clicked[s].id)]
          /\ notice' = [notice EXCEPT ![s] = notice[s] \cup {"exception"}]
          /\ pc' = [pc EXCEPT ![s] = "stopped"]

\* Lines 215-219: the Delete handler of the form the run has drawn again.
Delete(s) ==
    /\ pc[s] = "button"
    /\ clicked[s].kind = "Delete"
    /\ UNCHANGED <<next_oid, now, username, filter_status>>
    /\ clicked' = [clicked EXCEPT ![s] =
            [kind |-> "Delete", id |-> clicked[s].id,
             matched |-> {d \in tasks_collection : d._id = clicked[s].id}]]
    /\ all_tasks' = [all_tasks EXCEPT ![s] = << >>]
    /\ UNCHANGED pending_df
    /\ \/ /\ tasks_collection' = DeleteOne(tasks_collection, clicked[s].id)
          /\ deleted' = deleted \cup {clicked[s].id}
          /\ UNCHANGED <<faults, notice, forms>>
          /\ pc' = [pc EXCEPT ![s] = "rerun"]
       \/ \* delete_one raises: nothing catches it, the run ends
          /\ faults < MaxFaults
          /\ faults' = faults + 1
          /\ UNCHANGED <<tasks_collection, deleted>>
          /\ forms' = [forms EXCEPT ![s] = FormsUpTo(ShownTasks(s), clicked[s].id)]
          /\ notice' = [notice EXCEPT ![s] = notice[s] \cup {"exception"}]
          /\ pc' = [pc EXCEPT ![s] = "stopped"]

\* Lines 40-48: the ping at the top of a run fails; st.error and st.stop()
\* end the run before any widget is drawn, and the widgets' state goes.
PingFails(s) ==
    /\ pc[s] \in {"idle", "stopped", "rerun"}
    /\ faults < MaxFaults
    /\ faults' = faults + 1
    /\ UNCHANGED <<tasks_collection, next_oid, now, deleted>>
    /\ username' = [username EXCEPT ![s] = << >>]
    /\ filter_status' = [filter_status EXCEPT ![s] = DefaultFilter]
    /\ forms' = [forms EXCEPT ![s] = {}]
    /\ all_tasks' = [all_tasks EXCEPT ![s] = << >>]
    /\ UNCHANGED pending_df
    /\ clicked' = [clicked EXCEPT ![s] = NoClick]
    /\ notice' = [notice EXCEPT ![s] = {"Database is not responsive"}]
    /\ pc' = [pc EXCEPT ![s] = "stopped"]

\* The user reruns the page.
Rerun(s) ==
    /\ pc[s] \in {"idle", "stopped"}
    /\ FetchTasks(s, username[s], filter_status[s], NoClick, {})

Next ==
    \E s \in Sessions :
       \/ \E uname \in UsernameInputs[s] : TypeUsername(s, uname)
       \/ \E filter \in FilterInputs[s] : SelectFilter(s, filter)
       \/ \E a \in AddInputs :
             SubmitAdd(s, a.task_name, a.task_priority, a.task_due_date)
       \/ Fetch(s)
       \/ \E id \in 1..MaxTasks : ClickSave(s, id)
       \/ \E id \in 1..MaxTasks : ClickDelete(s, id)
       \/ \E u \in SaveInputs : Save(s, u.new_task_name, u.new_status, u.new_priority)
       \/ Delete(s)
       \/ PingFails(s)
       \/ Rerun(s)

Spec == Init /\ [][Next]_vars

\* ------------------------------------------- the deadlines table alone
\* Documents as the collection may hold them for one user: the app's own,
\* and documents written before the app stored a due date or with a due
\* date kept as text.
DeadlineDocs ==
    LET doc(task, status) == [Username |-> <<"a">>, Task |-> task, Status |-> status, Priority |-> "High"]
        due(d, v) == [f \in DOMAIN d \cup {"DueDate"} |-> IF f = "DueDate" THEN v ELSE d[f]]
    IN  {doc(<<"p">>, "Pending")}
        \cup {due(doc(<<"p">>, "Pending"), v) :
                v \in {Str("N/A"), Str("1970-01-02"), DatetimeCombine(1, MinTime), DatetimeCombine(2, MinTime)}}
        \cup {doc(<<"i">>, "In Progress"), due(doc(<<"i">>, "In Progress"), DatetimeCombine(2, MinTime))}
        \cup {due(doc(<<"c">>, "Completed"), v) : v \in {Str("N/A"), DatetimeCombine(1, MinTime)}}

\* The lists of at most n documents.
RECURSIVE ListsUpTo(_, _)
ListsUpTo(docs, n) ==
    IF n = 0 THEN {<< >>}
    ELSE LET shorter == ListsUpTo(docs, n - 1)
         IN  shorter \cup {Append(l, d) : l \in {m \in shorter : Len(m) = n - 1}, d \in docs}

\* A run of session s1 that has fetched any list of such documents.
InitDeadlines ==
    /\ tasks_collection = {}
    /\ next_oid = 1
    /\ now = 0
    /\ faults = 0
    /\ deleted = {}
    /\ username = [s \in Sessions |-> IF s = "s1" THEN <<"a">> ELSE << >>]
    /\ filter_status = [s \in Sessions |-> DefaultFilter]
    /\ forms = [s \in Sessions |-> {}]
    /\ \E lst \in ListsUpTo(DeadlineDocs, MaxLen) :
          all_tasks = [s \in Sessions |-> IF s = "s1" THEN lst ELSE << >>]
    /\ pending_df = [s \in Sessions |-> << >>]
    /\ clicked = [s \in Sessions |-> NoClick]
    /\ notice = [s \in Sessions |-> {}]
    /\ pc = [s \in Sessions |-> IF s = "s1" THEN "deadlines" ELSE "idle"]

\* Lines 146-176: the run draws the Upcoming Deadlines column.
DrawDeadlines(s) ==
    /\ pc[s] = "deadlines"
    /\ \E df \in UpcomingDeadlines(username[s], all_tasks[s]) :
          pending_df' = [pending_df EXCEPT ![s] = df]
    /\ pc' = [pc EXCEPT ![s] = "tasks"]
    /\ UNCHANGED <<tasks_collection, next_oid, now, faults, username, filter_status, forms, all_tasks, deleted, clicked, notice>>

NextDeadlines == \E s \in Sessions : DrawDeadlines(s)

SpecDeadlines == InitDeadlines /\ [][NextDeadlines]_vars

\* ---------------------------------------------------------- properties
\* A due date that is present and is a date: a datetime, or text that
\* parses as one.
ValidDueDate(t) ==
    /\ "DueDate" \in DOMAIN t
    /\ \/ IsDatetime(t.DueDate)
       \/ "str" \in DOMAIN t.DueDate /\ t.DueDate.str \in DOMAIN DateStrings

\* The datetime of a valid due date.
DueDatetime(t) == IF IsDatetime(t.DueDate) THEN t.DueDate ELSE DateStrings[t.DueDate.str]

\* C6: the deadlines table drawn from a fetched list holds exactly the tasks
\* that are not Completed and whose due date is present and a valid date,
\* one row each with the task's name, priority and date, and its rows are
\* in non-decreasing order of due date.
C6_DeadlinesTable ==
    \A s \in Sessions :
       pc[s] = "tasks" =>
          LET lst == all_tasks[s]
              df == pending_df[s]
              due == {k \in DOMAIN lst : lst[k].Status # "Completed" /\ ValidDueDate(lst[k])}
          IN  /\ Len(df) = Cardinality(due)
              /\ \E f \in [DOMAIN df -> due] :
                    /\ \A i, j \in DOMAIN df : i # j => f[i] # f[j]
                    /\ \A i \in DOMAIN df :
                          /\ df[i].Task = lst[f[i]].Task
                          /\ df[i].Priority = lst[f[i]].Priority
                          /\ df[i].DueDate = DueDatetime(lst[f[i]])
              /\ \A i, j \in DOMAIN df :
                    i < j => \/ df[i].DueDate.date < df[j].DueDate.date
                             \/ /\ df[i].DueDate.date = df[j].DueDate.date
                                /\ df[i].DueDate.time <= df[j].DueDate.time

\* A table drawn from a list that holds a Completed task with a date, a
\* pending task without a valid date, and two pending tasks listed latest
\* date first: two rows, earliest date first.
C6_Witness ==
    \E s \in Sessions :
       /\ pc[s] = "tasks"
       /\ Len(all_tasks[s]) = 4
       /\ \E a, b, c, d \in DOMAIN all_tasks[s] :
             /\ all_tasks[s][a].Status = "Completed" /\ ValidDueDate(all_tasks[s][a])
             /\ all_tasks[s][b].Status # "Completed" /\ ~ValidDueDate(all_tasks[s][b])
             /\ c < d
             /\ all_tasks[s][c].Status = "In Progress" /\ ValidDueDate(all_tasks[s][c])
             /\ all_tasks[s][d].Status = "Pending" /\ ValidDueDate(all_tasks[s][d])
             /\ DueDatetime(all_tasks[s][c]).date > DueDatetime(all_tasks[s][d]).date
       /\ Len(pending_df[s]) = 2
       /\ pending_df[s][1].Task = <<"p">>
       /\ pending_df[s][2].Task = <<"i">>

\* The owners the users of the sessions name.
Owners == {Strip(uname) : uname \in UNION {UsernameInputs[s] : s \in Sessions}}

\* The ids of the stored tasks.
StoredIds == {d._id : d \in tasks_collection}

\* C1: whatever the sessions have added, saved and deleted, the list the
\* query returns for an owner holds only that owner's tasks, and so does
\* every session's page: the list its run fetched and the forms drawn from
\* it are of tasks of the owner named in its name box.
C1_OwnerIsolation ==
    /\ \A o \in Owners : \A lst \in ListByOwner(tasks_collection, o) :
          \A i \in DOMAIN lst : lst[i].Username = o
    /\ \A s \in Sessions :
          /\ \A i \in DOMAIN all_tasks[s] : all_tasks[s][i].Username = Strip(username[s])
          /\ \A d \in tasks_collection : d._id \in forms[s] => d.Username = Strip(username[s])

\* Two sessions of different owners, each with a task of its own on its
\* page, and the collection holding both.
C1_Witness ==
    \E s, t \in Sessions :
       /\ Strip(username[s]) # Strip(username[t])
       /\ \E d, e \in tasks_collection :
             /\ d._id \in forms[s] /\ d.Username = Strip(username[s])
             /\ e._id \in forms[t] /\ e.Username = Strip(username[t])

\* A name of nothing but whitespace (the empty name among them).
Blank(task_name) == \A i \in DOMAIN task_name : task_name[i] = " "

\* C2: an add-form submission with an empty or whitespace-only name is
\* refused with a warning; it issues no insert and leaves the collection as
\* it was.
C2_BlankNameRejected ==
    [][\A s \in Sessions, a \in AddInputs :
          (Blank(a.task_name) /\ SubmitAdd(s, a.task_name, a.task_priority, a.task_due_date))
             => /\ tasks_collection' = tasks_collection
                /\ next_oid' = next_oid
                /\ notice'[s] = {"Please enter a task name."}]_vars

\* A session whose page shows the warning, its run going on to the fetch.
C2_Witness ==
    \E s \in Sessions : pc[s] = "fetch" /\ "Please enter a task name." \in notice[s]

\* The stored tasks of an owner other than task d.
OthersOfOwner(coll, d) == {e \in coll : e.Username = d.Username /\ e # d}

\* What an accepted add-form submission stores, the title taken as title.
AddedAs(s, a, title) ==
    \E d \in tasks_collection' :
       /\ d._id \notin StoredIds
       /\ tasks_collection' = tasks_collection \cup {d}
       /\ d.Username = Strip(username[s])
       /\ d.Task = title
       /\ d.Status = "Pending"
       /\ d.Priority = a.task_priority
       /\ d.DueDate = [date |-> a.task_due_date, time |-> 0]

\* An add-form submission of session s filled as a that the store accepts.
AcceptedAdd(s, a) ==
    /\ ~Blank(a.task_name)
    /\ SubmitAdd(s, a.task_name, a.task_priority, a.task_due_date)
    /\ tasks_collection' # tasks_collection

\* C3 as amended: an accepted submission adds exactly one task, owned by
\* the session's owner, titled with the submitted title stripped of
\* surrounding whitespace, Pending, with the submitted priority and due
\* date, every other task untouched; and a task whose createdAt is later
\* than that of every other task of its owner is first in the owner's list.
C3_AcceptedAddStripped ==
    /\ [][\A s \in Sessions, a \in AddInputs :
             AcceptedAdd(s, a) => AddedAs(s, a, Strip(a.task_name))]_vars
    /\ [](\A d \in tasks_collection :
             (\A e \in OthersOfOwner(tasks_collection, d) : e.CreatedAt < d.CreatedAt)
                => \A lst \in ListByOwner(tasks_collection, d.Username) : lst[1] = d)

\* C3 as claimed: the stored title is the submitted title, and the task is
\* first in its owner's list whenever no task of the owner was created
\* after it.
C3_AcceptedAddAsClaimed ==
    /\ [][\A s \in Sessions, a \in AddInputs :
             AcceptedAdd(s, a) => AddedAs(s, a, a.task_name)]_vars
    /\ [](\A d \in tasks_collection :
             (\A e \in OthersOfOwner(tasks_collection, d) : e._id < d._id)
                => \A lst \in ListByOwner(tasks_collection, d.Username) : lst[1] = d)

\* A run has fetched two tasks of its owner, the later one first: a Pending
\* task stored from a padded title with the priority and date submitted.
C3_Witness ==
    \E s \in Sessions :
       /\ pc[s] = "button"
       /\ Len(all_tasks[s]) = 2
       /\ all_tasks[s][1].CreatedAt > all_tasks[s][2].CreatedAt
       /\ all_tasks[s][1] \in tasks_collection
       /\ all_tasks[s][1].Task = <<"y">>
       /\ all_tasks[s][1].Status = "Pending"
       /\ all_tasks[s][1].Priority = "High"
       /\ all_tasks[s][1].DueDate = [date |-> 2, time |-> 0]

\* A Save of session s filled as u that the store applies to the stored
\* task d, Pending before and Completed by it.
CompletingSave(s, u, d) ==
    /\ Save(s, u.new_task_name, u.new_status, u.new_priority)
    /\ pc'[s] = "rerun"
    /\ d._id = clicked[s].id
    /\ d.Status = "Pending"
    /\ u.new_status = "Completed"

\* The metrics of the owner's list move by one task from pending to
\* completed, and the task keeps its due date and owner.
CountsMoveByOne(d) ==
    /\ \A before \in ListByOwner(tasks_collection, d.Username),
          after \in ListByOwner(tasks_collection', d.Username) :
          /\ completed_tasks(after) = completed_tasks(before) + 1
          /\ pending_tasks(after) = pending_tasks(before) - 1
          /\ total_tasks(after) = total_tasks(before)
    /\ \E e \in tasks_collection' : e._id = d._id
    /\ \A e \in tasks_collection' :
          e._id = d._id => e.DueDate = d.DueDate /\ e.Username = d.Username

\* C4 as amended: a Save that takes a task from Pending to Completed raises
\* the owner's completed count by one, lowers the pending count by one and
\* keeps the total, in the list fetched right after it against the one
\* right before; the task keeps its due date and owner, and its priority
\* is the one the Save submitted.
C4_CompletingSaveSubmittedPriority ==
    [][\A s \in Sessions, u \in SaveInputs : \A d \in tasks_collection :
          CompletingSave(s, u, d)
             => /\ CountsMoveByOne(d)
                /\ \A e \in tasks_collection' : e._id = d._id => e.Priority = u.new_priority]_vars

\* C4 as claimed: the task's priority is the same as before the Save.
C4_CompletingSaveSamePriority ==
    [][\A s \in Sessions, u \in SaveInputs : \A d \in tasks_collection :
          CompletingSave(s, u, d)
             => /\ CountsMoveByOne(d)
                /\ \A e \in tasks_collection' : e._id = d._id => e.Priority = d.Priority]_vars

\* A Save has just taken a Pending task to Completed, its owner having a
\* second task that is still Pending.
C4_Witness ==
    \E s \in Sessions :
       /\ pc[s] = "rerun"
       /\ clicked[s].kind = "Save"
       /\ clicked[s].new_status = "Completed"
       /\ \E d \in clicked[s].matched, e \in tasks_collection :
             /\ d.Status = "Pending"
             /\ e._id = d._id /\ e.Status = "Completed"
             /\ \E m \in OthersOfOwner(tasks_collection, e) : m.Status = "Pending"

\* The handler of session s has made its store call and the call returned.
Applied(s) == pc[s] = "button" /\ pc'[s] = "rerun"

\* C5: a task whose deletion the store has applied is in no list fetched
\* for any owner afterwards, a Save written from a view that still showed
\* it included; and an applied Delete removes the task it names and no
\* other.
C5_DeletedStaysDeleted ==
    /\ [](\A o \in Owners \cup {d.Username : d \in tasks_collection} :
             \A lst \in ListByOwner(tasks_collection, o) :
                \A i \in 1..Len(lst) : lst[i]._id \notin deleted)
    /\ [][\A s \in Sessions :
             (Delete(s) /\ Applied(s))
                => tasks_collection' = {d \in tasks_collection : d._id # clicked[s].id}]_vars

\* A session has saved, from a view that still showed it, a task another
\* session had deleted, while a task nobody deleted is still stored.
C5_Witness ==
    \E s \in Sessions :
       /\ pc[s] = "rerun"
       /\ clicked[s].kind = "Save"
       /\ clicked[s].id \in deleted
       /\ \E d \in tasks_collection : d._id \notin deleted

\* The fields of a task a Save never writes.
Immutable == {"_id", "Username", "DueDate", "CreatedAt"}

\* C7: stored task ids are unique; no step changes the id, owner, due date
\* or createdAt of a stored task; and a Save changes no task other than
\* the one it names, and neither adds nor removes one.
C7_SaveWritesThreeFields ==
    /\ [](\A d, e \in tasks_collection : d._id = e._id => d = e)
    /\ [][\A d \in tasks_collection, e \in tasks_collection' :
             d._id = e._id => \A f \in Immutable : e[f] = d[f]]_vars
    /\ [][\A s \in Sessions, u \in SaveInputs :
             Save(s, u.new_task_name, u.new_status, u.new_priority)
                => /\ {e._id : e \in tasks_collection'} = StoredIds
                   /\ \A d \in tasks_collection :
                         d._id # clicked[s].id => d \in tasks_collection']_vars

\* A Save has rewritten the title, status and priority of one of two
\* stored tasks; the other still is as it was added.
C7_Witness ==
    \E s \in Sessions :
       /\ pc[s] = "rerun"
       /\ clicked[s].kind = "Save"
       /\ \E d \in clicked[s].matched, e \in tasks_collection :
             /\ e._id = d._id
             /\ e.Task # d.Task /\ e.Status # d.Status /\ e.Priority # d.Priority
             /\ \E m \in tasks_collection : m._id # e._id /\ m.Status = "Pending"

\* C8: a Save or Delete whose task id is no longer stored returns without
\* error, leaves the store as it was (the task is not made again) and the
\* run goes on to its rerun with nothing reported.
C8_MissingIdIsNoOp ==
    [][\A s \in Sessions :
          (/\ pc[s] = "button"
           /\ clicked[s].id \notin StoredIds
           /\ pc'[s] # pc[s]
           /\ faults' = faults)
             => /\ tasks_collection' = tasks_collection
                /\ pc'[s] = "rerun"
                /\ "exception" \notin notice'[s]]_vars

\* A Delete has returned from a call that matched no task, another session
\* having deleted the task first, and nothing was reported.
C8_Witness ==
    \E s \in Sessions :
       /\ pc[s] = "rerun"
       /\ clicked[s].kind = "Delete"
       /\ clicked[s].matched = {}
       /\ clicked[s].id \in deleted
       /\ clicked[s].id \notin StoredIds
       /\ notice[s] = {}

\* C9 as claimed: no failure of a store call ends a run; a run stops early
\* only at the connection check, which reports the database as not
\* responsive.
C9_StoreFailuresNonFatal ==
    \A s \in Sessions : pc[s] = "stopped" => notice[s] = {"Database is not responsive"}

\* The title, status and priority session s submitted with its Save, the
\* title taken as title.
Submitted(s, title) ==
    [Task |-> title, Status |-> clicked[s].new_status, Priority |-> clicked[s].new_priority]

\* The title, status and priority of a task.
Written(d) == [Task |-> d.Task, Status |-> d.Status, Priority |-> d.Priority]

\* A Save of session s filled as u that the store applies to a stored task.
AppliedSave(s, u) ==
    /\ Save(s, u.new_task_name, u.new_status, u.new_priority)
    /\ Applied(s)
    /\ clicked[s].id \in StoredIds

=============================================================================
